---- MODULE Spec2Model ----
(***************************************************************************)
(* RGWRemoteCtl (src/rgw/driver/rados/rgw_remote.cc): the directory of     *)
(* connections to the remote zones of a multi-zone object store.           *)
(*                                                                         *)
(* Spec      the directory: init(), zone_conns(), the redirect lookup, the *)
(*           two create_conn() and the destructor, over every topology of  *)
(*           Topologies. init() runs statement by statement; the calls of  *)
(*           the other threads fall in between.                            *)
(* SpecConn  get_access_key() and the two create_conn() applied to every   *)
(*           argument list of ConnArgs against every credential store of   *)
(*           Stores.                                                       *)
(***************************************************************************)
EXTENDS Integers, Sequences, FiniteSets

VARIABLES
  zonegroup,                \* svc.zone->get_zonegroup(): [zones, foreign_zones]
  zone_data_notify_set,     \* svc.zone->get_zone_data_notify_set()
  store,                    \* ctl.user: [by_access_key, by_uid]
  heap,                     \* every RGWRESTConn constructed with new; a pointer is an index
  alloc_conns,              \* RGWRemoteCtl::alloc_conns
  conns_map,                \* RGWRemoteCtl::conns_map
  zone_meta_notify_to_map,  \* RGWRemoteCtl::zone_meta_notify_to_map
  zone_data_notify_to_map,  \* RGWRemoteCtl::zone_data_notify_to_map
  lookups,                  \* the lookups the credential store has answered, in order
  deleted,                  \* the pointers passed to delete, in order
  destroyed,                \* the destructor has run
  inits,                    \* number of init() calls that have returned
  calls,                    \* number of init(), create_conn() and get_access_key() calls made
  init_made,                \* the pointers of the connections constructed within init()
  init_pc,                  \* the statement the running init() executes next
  args,                     \* the arguments get_access_key() and create_conn() are called with
  ret                       \* the last step taken and what the call returned

vars == <<zonegroup, zone_data_notify_set, store, heap, alloc_conns, conns_map,
          zone_meta_notify_to_map, zone_data_notify_to_map, lookups, deleted,
          destroyed, inits, calls, init_made, init_pc, args, ret>>

-----------------------------------------------------------------------------
(* Bounds and input sets *)

\* The number of calls that construct connections or ask the credential store.
MaxCalls == 2

\* std::optional<T>: nullopt is the empty tuple, a value x is <<x>>.
None == <<>>
Some(x) == <<x>>

ZoneIds == {"A", "B", "C"}

\* std::map<rgw_zone_id, ...> iterates in key order.
ZoneOrder == <<"A", "B", "C">>

\* svc.zone->zone_id(): the local zone.
zone_id == "A"

\* svc.zone->get_zone_params().system_key
system_key == [id |-> "sys_id", key |-> "sys_secret"]

\* svc.zone->get_zonegroup().get_id()
zonegroup_id == "zg"

\* A default-constructed RGWAccessKey.
EmptyKey == [id |-> "", key |-> ""]

NoCred == [uid |-> None, access_key |-> None, secret |-> None]

CredRefs == [uid : {None, Some("u1")},
             access_key : {None, Some("ak1")},
             secret : {None, Some("s1")}]

\* RGWDataProvider::RESTConfig
RESTConfig(endpoints, cred) ==
  [endpoints |-> endpoints, uid |-> cred.uid,
   access_key |-> cred.access_key, secret |-> cred.secret]

\* RGWDataProvider
DataProvider(id, endpoints, data_access_conf, sip_conf) ==
  [id |-> id, endpoints |-> endpoints,
   data_access_conf |-> data_access_conf, sip_conf |-> sip_conf]

\* An access-key id without its secret: resolved through the credential store.
IdOnly == [uid |-> None, access_key |-> Some("ak1"), secret |-> None]

\* The data-access overrides: no endpoint list, an empty one, and a non-empty
\* one that comes with a credential reference to resolve.
DataConfs == {RESTConfig(None, NoCred), RESTConfig(Some(<<>>), NoCred),
              RESTConfig(Some(<<"e2">>), IdOnly)}
SipConfs  == {RESTConfig(e, NoCred) : e \in {None, Some(<<>>), Some(<<"e3">>)}}

\* Every shape of zone record: with and without endpoints of its own, with
\* and without each override, each override with no endpoint list, an empty
\* one and a non-empty one.
FullZones(id) ==
  {DataProvider(id, e, d, s) :
     e \in {<<>>, <<"e1">>},
     d \in {None} \cup {Some(c) : c \in DataConfs},
     s \in {None} \cup {Some(c) : c \in SipConfs}}

SmallZones(id) ==
  {DataProvider(id, e, None, s) :
     e \in {<<>>, <<"e1">>},
     s \in {None, Some(RESTConfig(Some(<<"e3">>), IdOnly))}}

PlainZone(id) == DataProvider(id, <<"e1">>, None, None)

\* The maps with a key for each id of ids and no other, the value of id drawn
\* from choice[id].
MapsOver(ids, choice) ==
  {f \in [ids -> UNION {choice[i] : i \in ids}] : \A i \in ids : f[i] \in choice[i]}

MemberChoice == [i \in ZoneIds |->
  IF i = zone_id THEN {PlainZone(i)}
  ELSE IF i = "B" THEN FullZones(i) ELSE {PlainZone(i)}]

ForeignChoice == [i \in ZoneIds |->
  IF i = "B" THEN SmallZones(i) ELSE {PlainZone(i)}]

\* The local zone is a member of its own zone group. A zone id may be listed
\* as a member zone and as a foreign zone: zones and foreign_zones are two
\* maps and nothing in init() keeps their keys apart.
Topologies ==
  {[zones |-> z, foreign_zones |-> f] :
     z \in UNION {MapsOver(ids, MemberChoice) :
                    ids \in {s \in SUBSET ZoneIds : zone_id \in s}},
     f \in UNION {MapsOver(ids, ForeignChoice) :
                    ids \in SUBSET {"B"}}}

\* What the topology service marks as data-notify recipients.
NotifySets == {{}, {"B"}}

Key1 == [id |-> "k1", key |-> "k1_secret"]
Key2 == [id |-> "k2", key |-> "k2_secret"]

\* What a lookup of the credential store answers: r < 0, or a user whose
\* access_keys map (in key order) has no, one or two keys.
StoreAnswers ==
  {[r |-> -2, access_keys |-> <<>>],
   [r |-> 0, access_keys |-> <<>>],
   [r |-> 0, access_keys |-> <<Key1>>],
   [r |-> 0, access_keys |-> <<Key2, Key1>>]}

Stores == [by_access_key : [{"ak1"} -> StoreAnswers],
           by_uid : [{"u1"} -> StoreAnswers]]

\* The store in which no lookup finds a user.
NoStore == [by_access_key |-> [k \in {"ak1"} |-> [r |-> -2, access_keys |-> <<>>]],
            by_uid |-> [u \in {"u1"} |-> [r |-> -2, access_keys |-> <<>>]]]

RESTConfigs ==
  {RESTConfig(e, c) : e \in {None, Some(<<>>), Some(<<"e2">>)}, c \in CredRefs}

\* The arguments of get_access_key (the credential reference of conf) and of
\* the two create_conn: conf the override of the first, key the access key of
\* the second, endpoints the def_endpoints of the first and the endpoints of
\* the second.
ConnArgs == [conf : RESTConfigs, endpoints : {<<>>, <<"e1">>},
             remote_id : {"B", "X"}, api_name : {None, Some("api")},
             key : {Key1}]

\* The one argument list the directory specification calls create_conn with.
DirArgs == [conf |-> RESTConfig(Some(<<"e2">>), IdOnly), endpoints |-> <<"e1">>,
            remote_id |-> "X", api_name |-> None, key |-> Key1]
NoRet == [op |-> "none"]

-----------------------------------------------------------------------------
(* The state a call works on, threaded through the helpers. *)

State ==
  [heap |-> heap, alloc_conns |-> alloc_conns, conns_map |-> conns_map,
   zone_meta_notify_to_map |-> zone_meta_notify_to_map,
   zone_data_notify_to_map |-> zone_data_notify_to_map,
   lookups |-> lookups]

\* m[k] = v of a std::map: inserts the key or overwrites its value.
Put(m, k, v) == [x \in (DOMAIN m) \cup {k} |-> IF x = k THEN v ELSE m[x]]

EmptyMap == [x \in {} |-> 0]

\* new RGWRESTConn(cct, remote_id, endpoints, key, zonegroup id, api_name)
RGWRESTConn(remote_id, endpoints, key, api_name) ==
  [remote_id |-> remote_id, endpoints |-> endpoints, key |-> key,
   self_zone_group |-> zonegroup_id, api_name |-> api_name]

\* RGWRESTConn::get_url: -EIO without endpoints, else one of the endpoints
\* (the connection rotates through them).
get_url(conn) ==
  IF conn.endpoints = <<>>
  THEN {[ret |-> -5, endpoint |-> ""]}
  ELSE {[ret |-> 0, endpoint |-> conn.endpoints[i]] : i \in 1..Len(conn.endpoints)}

\* RGWSI_Zone::find_zonegroup_by_zone: the api name of the zone group a zone
\* is a member of.
find_zonegroup_by_zone(id) ==
  IF id \in DOMAIN zonegroup.zones THEN Some("api") ELSE None

-----------------------------------------------------------------------------
(* RGWRemoteCtl::get_access_key *)

\* Lines 59-72: what get_access_key makes of the answer of the store; result
\* is the out-parameter as the caller left it and the branch above wrote it.
after_lookup(info, result, call) ==
  IF info.r < 0
  THEN [ret |-> FALSE, result |-> result, lookups |-> <<call>>]
  ELSE IF info.access_keys = <<>>
  THEN [ret |-> FALSE, result |-> result, lookups |-> <<call>>]
  ELSE [ret |-> TRUE, result |-> Head(info.access_keys), lookups |-> <<call>>]

\* get_access_key with the user identity tried before the access-key id.
get_access_key_uid_first(uid, access_key, secret) ==
  IF uid # None
  THEN after_lookup(store.by_uid[uid[1]], EmptyKey, <<"get_info_by_uid", uid[1]>>)
  ELSE IF access_key # None
  THEN LET result == [EmptyKey EXCEPT !.id = access_key[1]] IN
       IF secret # None
       THEN [ret |-> TRUE, result |-> [result EXCEPT !.key = secret[1]],
             lookups |-> <<>>]
       ELSE after_lookup(store.by_access_key[access_key[1]], result,
                         <<"get_info_by_access_key", access_key[1]>>)
  ELSE [ret |-> FALSE, result |-> EmptyKey, lookups |-> <<>>]

\* ret is the value returned, result the out-parameter (a default-constructed
\* key on entry), lookups the calls made to the credential store.
get_access_key(uid, access_key, secret) ==
  IF access_key # None
  THEN LET result == [EmptyKey EXCEPT !.id = access_key[1]] IN
       IF secret # None
       THEN [ret |-> TRUE, result |-> [result EXCEPT !.key = secret[1]],
             lookups |-> <<>>]
       ELSE after_lookup(store.by_access_key[access_key[1]], result,
                         <<"get_info_by_access_key", access_key[1]>>)
  ELSE IF uid # None
  THEN after_lookup(store.by_uid[uid[1]], EmptyKey, <<"get_info_by_uid", uid[1]>>)
  ELSE [ret |-> FALSE, result |-> EmptyKey, lookups |-> <<>>]

-----------------------------------------------------------------------------
(* RGWRemoteCtl::create_conn (zone + override). The new connection is the   *)
(* last element of the heap of the state returned.                          *)

\* create_conn falling back to the secret of the system key alone, the id
\* being whatever get_access_key left in the out-parameter.
create_conn_secret_only(st, zid, def_endpoints, conf, api_name) ==
  LET endpoints == IF conf.endpoints # None THEN conf.endpoints[1] ELSE def_endpoints
      gak == get_access_key(conf.uid, conf.access_key, conf.secret)
      access_key == IF ~gak.ret
                    THEN [gak.result EXCEPT !.key = system_key.key]
                    ELSE gak.result
  IN [st EXCEPT !.heap = Append(@, RGWRESTConn(zid, endpoints, access_key, api_name)),
                !.lookups = @ \o gak.lookups]

create_conn(st, zid, def_endpoints, conf, api_name) ==
  LET endpoints == IF conf.endpoints # None THEN conf.endpoints[1] ELSE def_endpoints
      gak == get_access_key(conf.uid, conf.access_key, conf.secret)
      access_key == IF ~gak.ret THEN system_key ELSE gak.result
  IN [st EXCEPT !.heap = Append(@, RGWRESTConn(zid, endpoints, access_key, api_name)),
                !.lookups = @ \o gak.lookups]

\* RGWRemoteCtl::create_conn (remote id, endpoints, access key): lines 194-201.
create_conn_explicit(st, remote_id, endpoints, key, api_name) ==
  [st EXCEPT !.heap = Append(@, RGWRESTConn(remote_id, endpoints, key, api_name))]

\* RGWRemoteCtl::add_conn: the directory takes ownership of the connection.
add_conn(st, conn) == [st EXCEPT !.alloc_conns = Append(@, conn)]

-----------------------------------------------------------------------------
(* RGWRemoteCtl::init_conn and RGWRemoteCtl::init                           *)
(*                                                                          *)
(* init() takes no lock and writes the directory statement by statement:    *)
(* line 105 inserts the key with a pair of null handles, line 108 or 110    *)
(* assigns the data slot, line 115 or 117 the sip slot, line 126 the        *)
(* metadata-notify table, line 129 the data-notify table. A call made by    *)
(* another thread while init() runs reads what the statements executed so   *)
(* far have written. init() therefore takes one step per statement that     *)
(* writes; the statements between two writes (tests, the construction of a  *)
(* connection and with it the lookup of the credential store) belong to the *)
(* step of the write they lead to. init_pc is the statement the running     *)
(* init() executes next; the null handle is the pointer 0.                  *)

Idle == [at |-> "idle", need_notify |-> FALSE, i |-> 0]

\* The running init() is in the loop over zones (need_notify) or over
\* foreign_zones, in init_conn of the i-th zone id of ZoneOrder, before the
\* statement at:
\*   "pair"         line 105
\*   "data"         lines 107-112
\*   "sip"          lines 114-118
\*   "meta_notify"  line 126
\*   "data_notify"  line 129
At(need_notify, i, at) == [at |-> at, need_notify |-> need_notify, i |-> i]

\* def_endpoints without the fallback to the endpoints of the data-access override.
def_endpoints_own_only(z) == z.endpoints

\* Lines 85-91: the endpoint list the zone's connections default to.
def_endpoints_of(z) ==
  IF /\ z.endpoints = <<>>
     /\ z.data_access_conf # None
     /\ z.data_access_conf[1].endpoints # None
     /\ z.data_access_conf[1].endpoints[1] # <<>>
  THEN z.data_access_conf[1].endpoints[1]
  ELSE z.endpoints

\* Line 105, auto& conns = conns_map[id]: a pair of null handles is inserted
\* if the id is not a key, the pair of the id is kept if it is.
insert_pair(st, z) ==
  IF z.id \in DOMAIN st.conns_map THEN st
  ELSE [st EXCEPT !.conns_map = Put(@, z.id, [data |-> 0, sip |-> 0])]

\* Lines 107-112: the data connection is constructed, handed to add_conn and
\* assigned to the data slot of the pair.
build_data(st, z, def_endpoints, api_name) ==
  LET st1 == IF z.data_access_conf # None
             THEN create_conn(st, z.id, def_endpoints, z.data_access_conf[1], api_name)
             ELSE [st EXCEPT !.heap =
                     Append(@, RGWRESTConn(z.id, z.endpoints, system_key, api_name))]
      data == Len(st1.heap)
      st2 == add_conn(st1, data)
  IN [st2 EXCEPT !.conns_map[z.id].data = data]

\* build_sip that never builds a sip connection of its own.
build_sip_always_alias(st, z, def_endpoints, api_name) ==
  [st EXCEPT !.conns_map[z.id].sip = st.conns_map[z.id].data]

\* build_sip that registers the aliased sip slot with add_conn as well.
build_sip_own_twice(st, z, def_endpoints, api_name) ==
  IF z.sip_conf # None
  THEN LET c == create_conn(st, z.id, def_endpoints, z.sip_conf[1], api_name)
           st1 == add_conn(c, Len(c.heap))
       IN [st1 EXCEPT !.conns_map[z.id].sip = Len(c.heap)]
  ELSE LET st1 == add_conn(st, st.conns_map[z.id].data)
       IN [st1 EXCEPT !.conns_map[z.id].sip = st.conns_map[z.id].data]

\* Lines 114-118: the sip slot gets a connection of its own if the zone has a
\* sync-index override, the data connection if it has none.
build_sip(st, z, def_endpoints, api_name) ==
  IF z.sip_conf # None
  THEN LET c == create_conn(st, z.id, def_endpoints, z.sip_conf[1], api_name)
           st1 == add_conn(c, Len(c.heap))
       IN [st1 EXCEPT !.conns_map[z.id].sip = Len(c.heap)]
  ELSE [st EXCEPT !.conns_map[z.id].sip = st.conns_map[z.id].data]

\* Line 126: the metadata-notify table gets the data connection of the zone.
register_meta_notify(st, z) ==
  [st EXCEPT !.zone_meta_notify_to_map = Put(@, z.id, st.conns_map[z.id].data)]

\* The test of line 128 taken to succeed for every zone.
in_data_notify_set_always(z) == TRUE

\* Line 128: the zone is one of the data-notify recipients.
in_data_notify_set(z) == z.id \in zone_data_notify_set

\* Line 129: the data-notify table gets the data connection of the zone.
register_data_notify(st, z) ==
  [st EXCEPT !.zone_data_notify_to_map = Put(@, z.id, st.conns_map[z.id].data)]

\* The zone record the loop is at.
zone_at(need_notify, i) ==
  IF need_notify THEN zonegroup.zones[ZoneOrder[i]]
  ELSE zonegroup.foreign_zones[ZoneOrder[i]]

\* Lines 137-143 and 78-96: from the i-th key of ZoneOrder on, the first zone
\* whose init_conn gets as far as line 105 (it is in the map the loop goes
\* over, it is not the local zone, its def_endpoints is not empty), the loop
\* over foreign_zones following the loop over zones. Idle if there is none:
\* init() returns.
RECURSIVE next_pair(_, _)
next_pair(need_notify, i) ==
  LET m == IF need_notify THEN zonegroup.zones ELSE zonegroup.foreign_zones IN
  IF i > Len(ZoneOrder)
  THEN IF need_notify THEN next_pair(FALSE, 1) ELSE Idle
  ELSE IF ZoneOrder[i] \notin DOMAIN m
  THEN next_pair(need_notify, i + 1)
  ELSE IF m[ZoneOrder[i]].id = zone_id \/ def_endpoints_of(m[ZoneOrder[i]]) = <<>>
  THEN next_pair(need_notify, i + 1)
  ELSE At(need_notify, i, "pair")

\* The statement at pc is executed: the state it leaves and the statement
\* init() executes next.
init_exec(st, pc) ==
  LET z == zone_at(pc.need_notify, pc.i)
      def_endpoints == def_endpoints_of(z)
      api_name == find_zonegroup_by_zone(z.id)
      return == next_pair(pc.need_notify, pc.i + 1)
  IN
  IF pc.at = "pair"
  THEN [st |-> insert_pair(st, z), pc |-> At(pc.need_notify, pc.i, "data")]
  ELSE IF pc.at = "data"
  THEN [st |-> build_data(st, z, def_endpoints, api_name),
        pc |-> At(pc.need_notify, pc.i, "sip")]
  ELSE IF pc.at = "sip"
  THEN [st |-> build_sip(st, z, def_endpoints, api_name),
        pc |-> IF pc.need_notify THEN At(TRUE, pc.i, "meta_notify") ELSE return]
  ELSE IF pc.at = "meta_notify"
  THEN [st |-> register_meta_notify(st, z),
        pc |-> IF in_data_notify_set(z) THEN At(TRUE, pc.i, "data_notify") ELSE return]
  ELSE [st |-> register_data_notify(st, z), pc |-> return]

\* What a step of init() leaves: r is the state and the next statement.
init_step(r) ==
  /\ heap' = r.st.heap
  /\ alloc_conns' = r.st.alloc_conns
  /\ conns_map' = r.st.conns_map
  /\ zone_meta_notify_to_map' = r.st.zone_meta_notify_to_map
  /\ zone_data_notify_to_map' = r.st.zone_data_notify_to_map
  /\ lookups' = r.st.lookups
  /\ init_made' = init_made \cup ((Len(heap) + 1)..Len(r.st.heap))
  /\ init_pc' = r.pc
  /\ inits' = IF r.pc = Idle THEN inits + 1 ELSE inits
  /\ ret' = [op |-> "init", returned |-> r.pc = Idle]
  /\ UNCHANGED <<zonegroup, zone_data_notify_set, store, deleted, destroyed, args>>

\* RGWRemoteCtl::init is called and executes its first statement that writes;
\* it returns at once if no zone gets as far as line 105. One thread calls
\* init(): there is no second init() while one is running.
init ==
  /\ ~destroyed /\ ret.op # "crash"
  /\ init_pc = Idle
  /\ calls < MaxCalls
  /\ calls' = calls + 1
  /\ LET first == next_pair(TRUE, 1) IN
     IF first = Idle
     THEN init_step([st |-> State, pc |-> Idle])
     ELSE init_step(init_exec(State, first))

\* The running init() executes its next statement that writes; it returns
\* with the last of them.
init_next ==
  /\ ~destroyed /\ ret.op # "crash"
  /\ init_pc # Idle
  /\ calls' = calls
  /\ init_step(init_exec(State, init_pc))

\* RGWRemoteCtl::zone_conns(const rgw_zone_id&)
zone_conns ==
  /\ ~destroyed /\ ret.op # "crash"
  /\ \E id \in ZoneIds :
       ret' = [op |-> "zone_conns", zone_id |-> id,
               result |-> IF id \notin DOMAIN conns_map THEN None
                          ELSE Some(conns_map[id])]
  /\ UNCHANGED <<zonegroup, zone_data_notify_set, store, heap, alloc_conns, conns_map,
                 zone_meta_notify_to_map, zone_data_notify_to_map, lookups, deleted,
                 destroyed, inits, calls, init_made, init_pc, args>>

\* A pair read while init() runs has a null handle in a slot init_conn has
\* not assigned yet. conn->get_url(*endpoint) through a null handle is undefined behaviour: the
\* process dies, or the call returns with either answer and *endpoint as it
\* was.
null_get_url(redirect_zone) ==
  {[op |-> "crash", redirect_zone |-> redirect_zone]} \cup
  {[op |-> "get_redirect_zone_endpoint", redirect_zone |-> redirect_zone,
    conn |-> 0, url |-> u, result |-> ~(u < 0), endpoint |-> ""] : u \in {-5, 0}}

\* get_redirect_zone_endpoint asking the sip connection of the redirect zone.
get_redirect_zone_endpoint_sip ==
  /\ ~destroyed /\ ret.op # "crash"
  /\ \E redirect_zone \in {""} \cup ZoneIds :
       IF redirect_zone = ""
       THEN ret' = [op |-> "get_redirect_zone_endpoint", redirect_zone |-> redirect_zone,
                    conn |-> 0, url |-> 0, result |-> FALSE, endpoint |-> ""]
       ELSE IF redirect_zone \notin DOMAIN conns_map
       THEN ret' = [op |-> "get_redirect_zone_endpoint", redirect_zone |-> redirect_zone,
                    conn |-> 0, url |-> 0, result |-> FALSE, endpoint |-> ""]
       ELSE LET conn == conns_map[redirect_zone].sip IN
            IF conn = 0
            THEN ret' \in null_get_url(redirect_zone)
            ELSE \E u \in get_url(heap[conn]) :
                   ret' = [op |-> "get_redirect_zone_endpoint",
                           redirect_zone |-> redirect_zone,
                           conn |-> conn, url |-> u.ret,
                           result |-> ~(u.ret < 0), endpoint |-> u.endpoint]
  /\ UNCHANGED <<zonegroup, zone_data_notify_set, store, heap, alloc_conns, conns_map,
                 zone_meta_notify_to_map, zone_data_notify_to_map, lookups, deleted,
                 destroyed, inits, calls, init_made, init_pc, args>>

\* RGWRemoteCtl::get_redirect_zone_endpoint. redirect_zone is what
\* svc.zone->get_zone() answers; *endpoint is "" on entry.
get_redirect_zone_endpoint ==
  /\ ~destroyed /\ ret.op # "crash"
  /\ \E redirect_zone \in {""} \cup ZoneIds :
       IF redirect_zone = ""
       THEN ret' = [op |-> "get_redirect_zone_endpoint", redirect_zone |-> redirect_zone,
                    conn |-> 0, url |-> 0, result |-> FALSE, endpoint |-> ""]
       ELSE IF redirect_zone \notin DOMAIN conns_map
       THEN ret' = [op |-> "get_redirect_zone_endpoint", redirect_zone |-> redirect_zone,
                    conn |-> 0, url |-> 0, result |-> FALSE, endpoint |-> ""]
       ELSE LET conn == conns_map[redirect_zone].data IN
            IF conn = 0
            THEN ret' \in null_get_url(redirect_zone)
            ELSE \E u \in get_url(heap[conn]) :
                   ret' = [op |-> "get_redirect_zone_endpoint",
                           redirect_zone |-> redirect_zone,
                           conn |-> conn, url |-> u.ret,
                           result |-> ~(u.ret < 0), endpoint |-> u.endpoint]
  /\ UNCHANGED <<zonegroup, zone_data_notify_set, store, heap, alloc_conns, conns_map,
                 zone_meta_notify_to_map, zone_data_notify_to_map, lookups, deleted,
                 destroyed, inits, calls, init_made, init_pc, args>>

\* One call of get_access_key with the credential reference of args.
CallGetAccessKey ==
  /\ ~destroyed /\ ret.op # "crash"
  /\ calls < MaxCalls
  /\ LET g == get_access_key(args.conf.uid, args.conf.access_key, args.conf.secret)
     IN /\ ret' = [op |-> "get_access_key", ret |-> g.ret, result |-> g.result,
                   lookups |-> g.lookups]
        /\ lookups' = lookups \o g.lookups
  /\ calls' = calls + 1
  /\ UNCHANGED <<zonegroup, zone_data_notify_set, store, heap, alloc_conns, conns_map,
                 zone_meta_notify_to_map, zone_data_notify_to_map, deleted,
                 destroyed, inits, init_made, init_pc, args>>

\* One call of create_conn (zone + override) by a user of the directory: the
\* connection is handed to the caller, the directory keeps nothing of it.
\* create_conn takes no lock and touches no member of the directory: it is
\* called at any time, also while init() runs.
CallCreateConn ==
  /\ ~destroyed /\ ret.op # "crash"
  /\ calls < MaxCalls
  /\ LET st == create_conn(State, args.remote_id, args.endpoints, args.conf, args.api_name)
     IN /\ heap' = st.heap
        /\ lookups' = st.lookups
        /\ ret' = [op |-> "create_conn", conn |-> Len(st.heap)]
  /\ calls' = calls + 1
  /\ UNCHANGED <<zonegroup, zone_data_notify_set, store, alloc_conns, conns_map,
                 zone_meta_notify_to_map, zone_data_notify_to_map, deleted,
                 destroyed, inits, init_made, init_pc, args>>

\* One call of create_conn (remote id, endpoints, access key), at any time
\* like the other create_conn.
CallCreateConnExplicit ==
  /\ ~destroyed /\ ret.op # "crash"
  /\ calls < MaxCalls
  /\ LET st == create_conn_explicit(State, args.remote_id, args.endpoints, args.key,
                                    args.api_name)
     IN /\ heap' = st.heap
        /\ ret' = [op |-> "create_conn_explicit", conn |-> Len(st.heap)]
  /\ calls' = calls + 1
  /\ UNCHANGED <<zonegroup, zone_data_notify_set, store, alloc_conns, conns_map,
                 zone_meta_notify_to_map, zone_data_notify_to_map, lookups, deleted,
                 destroyed, inits, init_made, init_pc, args>>

\* RGWRemoteCtl::~RGWRemoteCtl. The directory is destroyed by its owner once
\* no call on it is running.
Destructor ==
  /\ ~destroyed /\ ret.op # "crash"
  /\ init_pc = Idle
  /\ deleted' = deleted \o alloc_conns
  /\ destroyed' = TRUE
  /\ ret' = [op |-> "destructor"]
  /\ UNCHANGED <<zonegroup, zone_data_notify_set, store, heap, alloc_conns, conns_map,
                 zone_meta_notify_to_map, zone_data_notify_to_map, lookups, inits,
                 calls, init_made, init_pc, args>>

\* RGWRemoteCtl::RGWRemoteCtl, bound to one topology.
Init ==
  /\ zonegroup \in Topologies
  /\ zone_data_notify_set \in NotifySets
  /\ store = NoStore
  /\ heap = <<>>
  /\ alloc_conns = <<>>
  /\ conns_map = EmptyMap
  /\ zone_meta_notify_to_map = EmptyMap
  /\ zone_data_notify_to_map = EmptyMap
  /\ lookups = <<>>
  /\ deleted = <<>>
  /\ destroyed = FALSE
  /\ inits = 0
  /\ calls = 0
  /\ init_made = {}
  /\ init_pc = Idle
  /\ args = DirArgs
  /\ ret = NoRet

Next ==
  \/ init
  \/ init_next
  \/ zone_conns
  \/ get_redirect_zone_endpoint
  \/ CallCreateConn
  \/ CallCreateConnExplicit
  \/ Destructor

Spec == Init /\ [][Next]_vars

-----------------------------------------------------------------------------
(* SpecConn: calls of get_access_key and of the two create_conn. *)

InitConn ==
  /\ zonegroup = [zones |-> EmptyMap, foreign_zones |-> EmptyMap]
  /\ zone_data_notify_set = {}
  /\ store \in Stores
  /\ heap = <<>>
  /\ alloc_conns = <<>>
  /\ conns_map = EmptyMap
  /\ zone_meta_notify_to_map = EmptyMap
  /\ zone_data_notify_to_map = EmptyMap
  /\ lookups = <<>>
  /\ deleted = <<>>
  /\ destroyed = FALSE
  /\ inits = 0
  /\ calls = 0
  /\ init_made = {}
  /\ init_pc = Idle
  /\ args \in ConnArgs
  /\ ret = NoRet

NextConn ==
  \/ CallGetAccessKey
  \/ CallCreateConn
  \/ CallCreateConnExplicit

SpecConn == InitConn /\ [][NextConn]_vars

-----------------------------------------------------------------------------
(* Notions the properties are stated with. They are written from the        *)
(* description of the directory, not from init_conn.                        *)

\* The effective endpoint list of a channel: the list of the override if the
\* override has a non-empty one, else the endpoint list of the zone.
Effective(conf, z) ==
  IF conf # None /\ conf[1].endpoints # None /\ conf[1].endpoints[1] # <<>>
  THEN conf[1].endpoints[1]
  ELSE z.endpoints

\* The zone has nothing to build a data connection to.
NoEndpoints(z) == Effective(z.data_access_conf, z) = <<>>

Members == DOMAIN zonegroup.zones
Foreign == DOMAIN zonegroup.foreign_zones

\* A member zone init() builds a connection for.
Eligible(id) ==
  id \in Members /\ id # zone_id /\ ~NoEndpoints(zonegroup.zones[id])

EligibleForeign(id) ==
  id \in Foreign /\ id # zone_id /\ ~NoEndpoints(zonegroup.foreign_zones[id])

\* The zone record the directory entry of id was last built from: init()
\* goes through the member zones first and the foreign zones after them.
Builder(id) ==
  IF EligibleForeign(id) THEN zonegroup.foreign_zones[id] ELSE zonegroup.zones[id]

\* init() has returned and no init() is running.
AfterInit == inits > 0 /\ init_pc = Idle

Range(s) == {s[i] : i \in 1..Len(s)}

Count(s, x) == Cardinality({i \in 1..Len(s) : s[i] = x})

-----------------------------------------------------------------------------
\* C1 as stated: after init(), zone_conns of a member zone other than the
\* local zone is present unless the effective endpoint list of that member
\* zone is empty, and then it is absent; the local zone is never a key.
C1_AsStated ==
  /\ zone_id \notin DOMAIN conns_map
  /\ (AfterInit /\ ret.op = "zone_conns" /\ ret.zone_id \in Members
        /\ ret.zone_id # zone_id)
       => (ret.result # None <=> ~NoEndpoints(zonegroup.zones[ret.zone_id]))

\* C1 amended: after init(), zone_conns of a member zone other than the local
\* zone is present if the effective endpoint list of the member zone is not
\* empty; if it is empty the result is absent unless the same id is also
\* listed as a foreign zone whose effective endpoint list is not empty. The
\* local zone is never a key of the directory.
C1_MemberZonesPresent ==
  /\ zone_id \notin DOMAIN conns_map
  /\ (AfterInit /\ ret.op = "zone_conns" /\ ret.zone_id \in Members
        /\ ret.zone_id # zone_id)
       => (ret.result # None <=> (Eligible(ret.zone_id) \/ EligibleForeign(ret.zone_id)))
  /\ (ret.op = "zone_conns" /\ ret.result # None)
       => ret.result[1] = conns_map[ret.zone_id]

C1_Witness ==
  /\ inits > 0
  /\ ret.op = "zone_conns"
  /\ ret.zone_id = "B"
  /\ "B" \in Members
  /\ zonegroup.zones["B"].endpoints = <<>>
  /\ zonegroup.zones["B"].data_access_conf # None
  /\ ret.result # None
  /\ "B" \notin Foreign

\* C2: after init(), the pair of every zone in the directory has its sip
\* handle identical to its data handle if the zone record it was built from
\* has no sync-index override, and a handle of its own, constructed for that
\* zone and different from the data handle, if the record has one.
C2_SipAliasesData ==
  AfterInit =>
    \A id \in DOMAIN conns_map :
      LET z == Builder(id)
          p == conns_map[id]
      IN /\ z.sip_conf = None => p.sip = p.data
         /\ z.sip_conf # None =>
              /\ p.sip # p.data
              /\ p.sip \in Range(alloc_conns)
              /\ heap[p.sip].remote_id = id
              /\ \A other \in DOMAIN conns_map \ {id} :
                   p.sip \notin {conns_map[other].data, conns_map[other].sip}

C2_Witness ==
  /\ inits > 1
  /\ {"B", "C"} \subseteq DOMAIN conns_map
  /\ Builder("B").sip_conf # None
  /\ conns_map["B"].sip # conns_map["B"].data
  /\ conns_map["C"].sip = conns_map["C"].data

\* C3 as stated: after init(), every member zone marked as a data-notify
\* recipient is in both notify tables, every member zone not marked is in the
\* metadata-notify table only, every foreign zone is in neither.
C3_AsStated ==
  AfterInit =>
    /\ \A id \in Members :
         IF id \in zone_data_notify_set
         THEN id \in DOMAIN zone_meta_notify_to_map /\ id \in DOMAIN zone_data_notify_to_map
         ELSE id \in DOMAIN zone_meta_notify_to_map /\ id \notin DOMAIN zone_data_notify_to_map
    /\ \A id \in Foreign :
         id \notin DOMAIN zone_meta_notify_to_map /\ id \notin DOMAIN zone_data_notify_to_map

\* C3 amended: after init(), every member zone other than the local zone
\* whose effective endpoint list is not empty is in both notify tables if it
\* is marked as a data-notify recipient and in the metadata-notify table only
\* if it is not; every other zone id (the local zone, a member zone without
\* endpoints, a foreign zone that is not also such a member zone) is in
\* neither table.
C3_NotifyTables ==
  AfterInit =>
    \A id \in ZoneIds :
      IF Eligible(id)
      THEN /\ id \in DOMAIN zone_meta_notify_to_map
           /\ id \in DOMAIN zone_data_notify_to_map <=> id \in zone_data_notify_set
      ELSE /\ id \notin DOMAIN zone_meta_notify_to_map
           /\ id \notin DOMAIN zone_data_notify_to_map

C3_Witness ==
  /\ inits > 0
  /\ Eligible("C") /\ "C" \notin zone_data_notify_set
  /\ "C" \in DOMAIN zone_meta_notify_to_map
  /\ "C" \notin DOMAIN zone_data_notify_to_map
  /\ "B" \in Foreign \ Members
  /\ "B" \in zone_data_notify_set
  /\ "B" \in DOMAIN conns_map
  /\ "B" \notin DOMAIN zone_meta_notify_to_map

\* C4 as stated: a handle stored in the pair of a zone id is never replaced
\* by a different handle, whatever calls follow. (A slot init_conn has not
\* assigned yet holds no handle: its first assignment replaces nothing.)
C4_NeverReplaced ==
  [][\A id \in DOMAIN conns_map :
       /\ id \in DOMAIN conns_map'
       /\ conns_map[id].data # 0 => conns_map'[id].data = conns_map[id].data
       /\ conns_map[id].sip # 0 => conns_map'[id].sip = conns_map[id].sip]_vars

\* C5 as stated: every handle init() keeps was constructed with a non-empty
\* endpoint list, the data handle of a zone with a data-access override with
\* the effective endpoint list of that override; a zone has no entry exactly
\* when that list is empty.
C5_AsStated ==
  AfterInit =>
    /\ \A c \in Range(alloc_conns) : heap[c].endpoints # <<>>
    /\ \A id \in DOMAIN conns_map :
         LET z == Builder(id) IN
         z.data_access_conf # None
           => heap[conns_map[id].data].endpoints = Effective(z.data_access_conf, z)
    /\ \A id \in ZoneIds \ {zone_id} :
         id \in DOMAIN conns_map <=> (Eligible(id) \/ EligibleForeign(id))

\* C6: get_access_key with an access-key id and a secret returns that pair
\* and asks the store nothing; with an access-key id and no secret it asks
\* the store once, by access-key id, whether or not a user identity is given;
\* with a user identity only it asks the store once, by identity; with
\* neither it returns false and asks the store nothing.
C6_ResolutionOrder ==
  ret.op = "get_access_key" =>
    LET c == args.conf IN
    /\ (c.access_key # None /\ c.secret # None) =>
         /\ ret.ret
         /\ ret.result = [id |-> c.access_key[1], key |-> c.secret[1]]
         /\ ret.lookups = <<>>
    /\ (c.access_key # None /\ c.secret = None) =>
         ret.lookups = << <<"get_info_by_access_key", c.access_key[1]>> >>
    /\ (c.access_key = None /\ c.uid # None) =>
         ret.lookups = << <<"get_info_by_uid", c.uid[1]>> >>
    /\ (c.access_key = None /\ c.uid = None) =>
         ~ret.ret /\ ret.lookups = <<>>

C6_Witness ==
  /\ ret.op = "get_access_key"
  /\ args.conf.access_key # None
  /\ args.conf.secret = None
  /\ args.conf.uid # None
  /\ Len(ret.lookups) = 1
  /\ ret.ret

\* The answer of the store is of no use: the lookup failed or the user has no keys.
NoKeys(answer) == answer.r < 0 \/ answer.access_keys = <<>>

\* Credential resolution fails for the override.
ResolutionFails(c) ==
  \/ c.access_key = None /\ c.uid = None
  \/ c.access_key # None /\ c.secret = None /\ NoKeys(store.by_access_key[c.access_key[1]])
  \/ c.access_key = None /\ c.uid # None /\ NoKeys(store.by_uid[c.uid[1]])

\* C7: when credential resolution fails for the override of a channel,
\* create_conn still constructs the connection, and constructs it with the
\* system key of the local zone, id and secret both.
C7_SystemKeyFallback ==
  (ret.op = "create_conn" /\ ResolutionFails(args.conf)) =>
    /\ ret.conn = Len(heap)
    /\ heap[ret.conn].remote_id = args.remote_id
    /\ heap[ret.conn].key = system_key

C7_Witness ==
  /\ ret.op = "create_conn"
  /\ args.conf.access_key # None
  /\ args.conf.secret = None
  /\ store.by_access_key[args.conf.access_key[1]] = [r |-> 0, access_keys |-> <<>>]
  /\ heap[ret.conn].key = system_key

C9_ReleasedOnce ==
  destroyed => \A c \in init_made : Count(deleted, c) = 1

C9_Witness ==
  /\ destroyed
  /\ inits > 1
  /\ "B" \in DOMAIN conns_map
  /\ conns_map["B"].sip = conns_map["B"].data
  /\ "B" \in DOMAIN zone_data_notify_to_map
  /\ "C" \in DOMAIN conns_map
  /\ Cardinality(init_made) > 3

\* C10 as stated: whenever no init() is running, every zone id of a notify table is a key of the directory
\* and the table holds the data handle of the current pair of that zone; the
\* keys of the data-notify table are keys of the metadata-notify table.
C10_AsStated ==
  init_pc = Idle =>
  /\ \A id \in DOMAIN zone_meta_notify_to_map :
       id \in DOMAIN conns_map /\ zone_meta_notify_to_map[id] = conns_map[id].data
  /\ \A id \in DOMAIN zone_data_notify_to_map :
       id \in DOMAIN conns_map /\ zone_data_notify_to_map[id] = conns_map[id].data
  /\ DOMAIN zone_data_notify_to_map \subseteq DOMAIN zone_meta_notify_to_map

====
